---- MODULE Spec2Model ----
(***************************************************************************)
(* Model of the Ludwig harmonic-data tools: the two CSV import routes      *)
(* (scripts/load_csv.py and scripts/import_harmonics.py) and the query     *)
(* side (scripts/generate_plots.py), over the tables of models.py.         *)
(*                                                                         *)
(* Text is modelled as what it is: a line is a sequence of characters,     *)
(* each a one-character string.  The only exception is a column name of    *)
(* the header, which no operation looks inside: it is kept as one symbol   *)
(* ("HARM_NUMBER") that is neither whitespace, a tab nor a quote.          *)
(*                                                                         *)
(* A float is a record [k, m, s]: k = "fin" is the decimal m / 10^s in     *)
(* lowest form (s = 0, or m not a multiple of 10); k = "nan", "inf",       *)
(* "-inf" are the IEEE specials; k = "None" is Python's None.              *)
(***************************************************************************)
EXTENDS Integers, Sequences, FiniteSets, TLC

\* ------------------------------------------------------------ bounds

\* Longest file body (data lines after the header) the model draws.
MaxLines == 2
\* Most rows the HarmData table holds in the model (runs that would exceed it
\* are not taken).
MaxDbRows == 5
\* The longest list of records handed to create_polar_plot_for_group
MaxRecords == 2

\* ------------------------------------------------------- str methods

TAB == "\t"
QUOTE == "\""
Whitespace == {" ", "\t", "\n", "\r"}
Digits == {"0", "1", "2", "3", "4", "5", "6", "7", "8", "9"}

DigitVal(c) ==
  CASE c = "0" -> 0 [] c = "1" -> 1 [] c = "2" -> 2 [] c = "3" -> 3
    [] c = "4" -> 4 [] c = "5" -> 5 [] c = "6" -> 6 [] c = "7" -> 7
    [] c = "8" -> 8 [] c = "9" -> 9

RECURSIVE LStrip(_)
LStrip(s) ==
  IF s # <<>> /\ Head(s) \in Whitespace THEN LStrip(Tail(s)) ELSE s

RECURSIVE RStrip(_)
RStrip(s) ==
  IF s # <<>> /\ s[Len(s)] \in Whitespace
  THEN RStrip(SubSeq(s, 1, Len(s) - 1))
  ELSE s

\* str.strip(): leading and trailing whitespace removed.
Strip(s) == RStrip(LStrip(s))

\* str.split(sep): the fields between the separators; "" gives one empty field.
\* out holds the fields that are complete, cur the field being read.
RECURSIVE SplitFrom(_, _, _, _, _)
SplitFrom(s, sep, i, cur, out) ==
  IF i > Len(s) THEN Append(out, cur)
  ELSE IF s[i] = sep THEN SplitFrom(s, sep, i + 1, <<>>, Append(out, cur))
  ELSE SplitFrom(s, sep, i + 1, Append(cur, s[i]), out)

Split(s, sep) == SplitFrom(s, sep, 1, <<>>, <<>>)

\* line.startswith('"') and line.endswith('"'): then line[1:-1].
Unquote(s) ==
  IF s # <<>> /\ Head(s) = QUOTE /\ s[Len(s)] = QUOTE
  THEN SubSeq(s, 2, Len(s) - 1)
  ELSE s

\* dict(zip(keys, values))[key]: a later duplicate key overwrites an earlier
\* one, so the last position of the key counts.
HasKey(keys, key) == \E i \in 1..Len(keys) : keys[i] = key

RECURSIVE LastIndex(_, _, _)
LastIndex(keys, key, i) ==
  IF i = 0 \/ keys[i] = key THEN i ELSE LastIndex(keys, key, i - 1)

Lookup(keys, values, key) == values[LastIndex(keys, key, Len(keys))]

\* ------------------------------------------------ int() and float()

\* A digit part: digits, single underscores allowed between digits.
DigitPart(s) ==
  /\ s # <<>>
  /\ \A i \in 1..Len(s) : s[i] \in Digits \cup {"_"}
  /\ s[1] \in Digits /\ s[Len(s)] \in Digits
  /\ \A i \in 1..(Len(s) - 1) : ~(s[i] = "_" /\ s[i + 1] = "_")

RECURSIVE DigitsValue(_, _)
DigitsValue(s, acc) ==
  IF s = <<>> THEN acc
  ELSE IF Head(s) = "_" THEN DigitsValue(Tail(s), acc)
  ELSE DigitsValue(Tail(s), 10 * acc + DigitVal(Head(s)))

CountDigits(s) == Cardinality({i \in 1..Len(s) : s[i] \in Digits})

Signed(s) == s # <<>> /\ Head(s) \in {"+", "-"}
Unsigned(s) == IF Signed(s) THEN Tail(s) ELSE s
SignOf(s) == IF s # <<>> /\ Head(s) = "-" THEN -1 ELSE 1

\* int(text): [ok |-> the text is accepted, val |-> its value]; ok = FALSE
\* is ValueError.
PyIntMutant(text) ==
  LET t == Strip(text)
      i == IF \E j \in 1..Len(t) : t[j] = "." THEN
             CHOOSE j \in 1..Len(t) : t[j] = "." /\ \A k \in 1..(j - 1) : t[k] # "."
           ELSE Len(t) + 1
      w == SubSeq(t, 1, i - 1)
  IN  IF DigitPart(Unsigned(w))
      THEN [ok |-> TRUE, val |-> SignOf(w) * DigitsValue(Unsigned(w), 0)]
      ELSE [ok |-> FALSE, val |-> 0]
PyInt(text) ==
  LET t == Strip(text)
  IN  IF DigitPart(Unsigned(t))
      THEN [ok |-> TRUE, val |-> SignOf(t) * DigitsValue(Unsigned(t), 0)]
      ELSE [ok |-> FALSE, val |-> 0]

None == [k |-> "None", m |-> 0, s |-> 0]
NaN == [k |-> "nan", m |-> 0, s |-> 0]
Inf == [k |-> "inf", m |-> 0, s |-> 0]
NegInf == [k |-> "-inf", m |-> 0, s |-> 0]

RECURSIVE Pow10(_)
Pow10(n) == IF n <= 0 THEN 1 ELSE 10 * Pow10(n - 1)

\* The decimal m / 10^s in lowest form.
RECURSIVE Fin(_, _)
Fin(m, s) ==
  IF s < 0 THEN Fin(m * Pow10(-s), 0)
  ELSE IF s > 0 /\ m % 10 = 0 THEN Fin(m \div 10, s - 1)
  ELSE [k |-> "fin", m |-> m, s |-> s]

Lower(c) ==
  CASE c = "I" -> "i" [] c = "N" -> "n" [] c = "F" -> "f" [] c = "A" -> "a"
    [] c = "T" -> "t" [] c = "Y" -> "y" [] c = "E" -> "e" [] c = "S" -> "s"
    [] c = "O" -> "o" [] OTHER -> c
LowerSeq(s) == [i \in 1..Len(s) |-> Lower(s[i])]

FirstIndex(s, cs) ==
  IF \E i \in 1..Len(s) : s[i] \in cs
  THEN CHOOSE i \in 1..Len(s) : s[i] \in cs /\ \A k \in 1..(i - 1) : s[k] \notin cs
  ELSE 0

\* float(text): [ok |-> the text is accepted, val |-> the float]; ok = FALSE
\* is ValueError.
PyFloat(text) ==
  LET t    == Strip(text)
      sgn  == SignOf(t)
      u    == LowerSeq(Unsigned(t))
      e    == FirstIndex(u, {"e"})
      mant == IF e = 0 THEN u ELSE SubSeq(u, 1, e - 1)
      expo == IF e = 0 THEN <<>> ELSE SubSeq(u, e + 1, Len(u))
      p    == FirstIndex(mant, {"."})
      ip   == IF p = 0 THEN mant ELSE SubSeq(mant, 1, p - 1)
      fp   == IF p = 0 THEN <<>> ELSE SubSeq(mant, p + 1, Len(mant))
      bad  == [ok |-> FALSE, val |-> None]
  IN  IF u \in {<<"i", "n", "f">>, <<"i", "n", "f", "i", "n", "i", "t", "y">>}
      THEN [ok |-> TRUE, val |-> IF sgn = 1 THEN Inf ELSE NegInf]
      ELSE IF u = <<"n", "a", "n">> THEN [ok |-> TRUE, val |-> NaN]
      ELSE IF /\ (ip = <<>> \/ DigitPart(ip))
              /\ (fp = <<>> \/ DigitPart(fp))
              /\ (ip # <<>> \/ fp # <<>>)
              /\ (e = 0 \/ DigitPart(Unsigned(expo)))
      THEN [ok |-> TRUE,
            val |-> Fin(sgn * DigitsValue(ip \o fp, 0),
                        CountDigits(fp)
                          - (IF e = 0 THEN 0
                             ELSE SignOf(expo) * DigitsValue(Unsigned(expo), 0)))]
      ELSE bad

\* float.is_integer(): a finite float with no fractional part.
IsInteger(x) == x.k = "fin" /\ x.s = 0
\* int(x) of a float for which is_integer() holds.
IntOfFloat(x) == x.m

\* ------------------------------------------------------ the tables

\* The model classes models.py defines.
LudwigModels == {"HarmData"}
\* HarmData._meta.db_table
HarmDataTable == "ludwig_harmdata"

VARIABLES
  csv,            \* the file at csv_path: [readable, lines]
  tables,         \* the tables of the database (connection.introspection)
  harmdata,       \* the rows of the HarmData table, in insertion order
  harmonicrecord, \* the rows of the HarmonicRecord table, in insertion order
  ret             \* the last call: its name, arguments and outcome

vars == <<csv, tables, harmdata, harmonicrecord, ret>>

\* The outcome of a call. exc is the exception raised ("none": it returned).
\* srcs and iters are bookkeeping the code keeps for its messages: the line
\* numbers of the accepted data lines (line_num / idx + 1), and the number of
\* data lines the loop body ran for.
Ret(op, exc, val, count) ==
  [op |-> op, exc |-> exc, val |-> val, count |-> count, srcs |-> <<>>,
   iters |-> 0, max_rows |-> 0, harm_number |-> 0, night_mode |-> FALSE,
   threshold |-> None]

\* ------------------------------------------------------ load_csv.py

REQUIRED_COLUMNS ==
  <<"HARM_NUMBER", "P_HARM_TOTAL",
    "I_PREVAIL_MAG_1", "I_PREVAIL_ANG_1", "V_PREVAIL_MAG_1", "V_PREVAIL_ANG_1",
    "I_PREVAIL_MAG_2", "I_PREVAIL_ANG_2", "V_PREVAIL_MAG_2", "V_PREVAIL_ANG_2",
    "I_PREVAIL_MAG_3", "I_PREVAIL_ANG_3", "V_PREVAIL_MAG_3", "V_PREVAIL_ANG_3">>

\* list_db_tables()
list_db_tables == tables

\* The try of lines 97-101: int(row_dict['HARM_NUMBER']).
LoadHarmNumberMutant(text) == PyIntMutant(text)
LoadHarmNumber(text) == PyInt(text)

\* The try of lines 104-120, for one column: float(row_dict[c]).
LoadFloatMutant(text) ==
  IF PyFloat(text).ok THEN PyFloat(text) ELSE [ok |-> TRUE, val |-> NaN]
LoadFloat(text) == PyFloat(text)

\* A pass of the loop that appends nothing (one of the continue statements).
Skip == [ok |-> FALSE, rec |-> <<>>]

\* The HarmData(...) of lines 122-141, after the two try blocks: harm_number
\* is the outcome of int(), f[i] the outcome of float() for REQUIRED_COLUMNS[i].
LoadRecord(harm_number, f) ==
  IF ~harm_number.ok THEN Skip
  ELSE IF \E i \in DOMAIN f : ~f[i].ok THEN Skip
  ELSE [ok |-> TRUE,
        rec |-> [harm_number |-> harm_number.val,
                 p_harm_total |-> f[2].val,
                 i_prevail_mag_1 |-> f[3].val,
                 i_prevail_ang_1 |-> f[4].val,
                 v_prevail_mag_1 |-> f[5].val,
                 v_prevail_ang_1 |-> f[6].val,
                 i_prevail_mag_2 |-> f[7].val,
                 i_prevail_ang_2 |-> f[8].val,
                 v_prevail_mag_2 |-> f[9].val,
                 v_prevail_ang_2 |-> f[10].val,
                 i_prevail_mag_3 |-> f[11].val,
                 i_prevail_ang_3 |-> f[12].val,
                 v_prevail_mag_3 |-> f[13].val,
                 v_prevail_ang_3 |-> f[14].val]]

\* Lines 86-120 for the stripped line l and parts = l.split("\t").
LoadParts(header_fields, l, parts) ==
  IF l = <<>> THEN Skip
  ELSE IF Len(parts) # Len(header_fields) THEN Skip
  ELSE LoadRecord(
         LoadHarmNumber(Lookup(header_fields, parts, <<"HARM_NUMBER">>)),
         [i \in 2..Len(REQUIRED_COLUMNS) |->
            LoadFloat(Lookup(header_fields, parts, <<REQUIRED_COLUMNS[i]>>))])

\* parts = line.split("\t") of the stripped line (line 90)
LoadLine(header_fields, l) == LoadParts(header_fields, l, Split(l, TAB))

\* One pass of the loop body of load_csv_to_db over a data line (lines 86-142):
\* [ok |-> a record is appended, rec |-> the HarmData object].
LoadRow(header_fields, line) == LoadLine(header_fields, Strip(line))

\* records.append(record) of line 142 for data line i, or the continue: acc is
\* [records, srcs], srcs the line_num of each record (the header is line 1).
LoadStep(acc, i, r) ==
  IF r.ok THEN [records |-> Append(acc.records, r.rec),
                srcs |-> Append(acc.srcs, i)]
  ELSE acc

\* The loop of load_csv_to_db (lines 79-142) from data line i on.
RECURSIVE LoadLoop(_, _, _, _)
LoadLoop(header_fields, lines, i, acc) ==
  IF i > Len(lines) THEN acc
  ELSE LoadLoop(header_fields, lines, i + 1,
                LoadStep(acc, i, LoadRow(header_fields, lines[i])))

\* The header of load_csv_to_db (lines 61-77): [ok, header_fields]; ok = FALSE
\* is the AssertionError of an unreadable or empty header or a missing column.
LoadHeader(file) ==
  IF ~file.readable \/ file.lines = <<>> \/ Strip(file.lines[1]) = <<>>
  THEN [ok |-> FALSE, header_fields |-> <<>>]
  ELSE LET header_fields == Split(Strip(file.lines[1]), TAB)
       IN  [ok |-> \A i \in 1..Len(REQUIRED_COLUMNS) :
                     HasKey(header_fields, <<REQUIRED_COLUMNS[i]>>),
            header_fields |-> header_fields]

\* HarmData.objects.bulk_create(records): the rows are appended to the table;
\* the list of created objects is returned.
bulk_createMutant(records) ==
  [table |-> IF records = <<>> THEN harmdata ELSE Append(harmdata, records[1]),
   created |-> records]
bulk_create(records) ==
  [table |-> harmdata \o records, created |-> records]

\* An AssertionError of load_csv_to_db: nothing was inserted.
LoadFailed ==
  [exc |-> "AssertionError", harmdata |-> harmdata, created |-> 0,
   srcs |-> <<>>]

\* Lines 144-160 for the loop's outcome r and b = bulk_create(r.records): the
\* table check comes first, so b is only carried out when the table exists.
LoadStoreMutant(r, b) ==
  IF HarmDataTable \notin list_db_tables
  THEN [LoadFailed EXCEPT !.harmdata = b.table]
  ELSE [exc |-> "none", harmdata |-> b.table,
        created |-> Len(b.created), srcs |-> r.srcs]
LoadStore(r, b) ==
  IF HarmDataTable \notin list_db_tables THEN LoadFailed
  ELSE IF Len(b.created) # Len(r.records)
       THEN [LoadFailed EXCEPT !.harmdata = b.table]
  ELSE [exc |-> "none", harmdata |-> b.table,
        created |-> Len(b.created), srcs |-> r.srcs]

\* Lines 79-160 for the loop's outcome r
LoadInsert(r) == LoadStore(r, bulk_create(r.records))

\* Lines 61-160 for the header's outcome h
LoadBody(file, h) ==
  IF ~h.ok THEN LoadFailed
  ELSE LoadInsert(LoadLoop(h.header_fields, file.lines, 2,
                           [records |-> <<>>, srcs |-> <<>>]))

\* load_csv_to_db(csv_path): [exc, harmdata (the table afterwards), created
\* (the number printed as loaded), srcs].
load_csv_to_db(file) == LoadBody(file, LoadHeader(file))

\* ------------------------------------------------ import_harmonics.py

\* Maximum number of rows to process.  The source sets 100000; the model
\* takes 1, so that files with more valid lines than the cap are within
\* MaxLines.  Nothing in the code depends on the magnitude.
MAX_ROWS == 1

required_headers ==
  {"ROW_ID", "HARM_NUMBER",
   "V_PREVAIL_ANG_1", "V_PREVAIL_ANG_2", "V_PREVAIL_ANG_3", "V_PREVAIL_ANG_4",
   "V_PREVAIL_MAG_1", "V_PREVAIL_MAG_2", "V_PREVAIL_MAG_3", "V_PREVAIL_MAG_4",
   "I_PREVAIL_ANG_1", "I_PREVAIL_ANG_2", "I_PREVAIL_ANG_3", "I_PREVAIL_ANG_4",
   "I_PREVAIL_MAG_1", "I_PREVAIL_MAG_2", "I_PREVAIL_MAG_3", "I_PREVAIL_MAG_4"}

\* The try of safe_float (lines 121-126) for the stripped text v and
\* f = float(v).
FloatOrNone(v, f) ==
  IF v = <<>> THEN None ELSE IF f.ok THEN f.val ELSE None

\* The stripped value of safe_float (line 120)
SafeFloatOf(v) == FloatOrNone(v, PyFloat(v))

\* safe_float(field_name) of a field's text
safe_float(value) == SafeFloatOf(Strip(value))

\* A HARM_NUMBER that read_csv does not accept
NoNumber == [ok |-> FALSE, val |-> 0]

\* Lines 99-107 and 130 for f = float(harmonic_str): [ok, val]; val is
\* int(harmonic_val).
ReadHarmonicMutant(f) ==
  IF ~f.ok \/ f.val.k # "fin" THEN NoNumber
  ELSE [ok |-> TRUE, val |-> f.val.m \div Pow10(f.val.s)]
ReadHarmonic(f) ==
  IF ~f.ok THEN NoNumber
  ELSE IF ~IsInteger(f.val) THEN NoNumber
  ELSE [ok |-> TRUE, val |-> IntOfFloat(f.val)]

\* The HARM_NUMBER checks of read_csv (lines 95-107) for the stripped text
HarmonicOf(harmonic_str) ==
  IF harmonic_str = <<>> THEN NoNumber
  ELSE ReadHarmonic(PyFloat(harmonic_str))

\* The ROW_ID checks of read_csv (lines 109-117) for the stripped text
RowIdOf(row_id_str) ==
  IF row_id_str = <<>> THEN NoNumber ELSE PyInt(row_id_str)

\* The keys of a record of read_csv that safe_float fills, each with its
\* column (lines 131-146).
ReadColumns ==
  [v_prevail_ang1 |-> "V_PREVAIL_ANG_1", v_prevail_ang2 |-> "V_PREVAIL_ANG_2",
   v_prevail_ang3 |-> "V_PREVAIL_ANG_3", v_prevail_ang4 |-> "V_PREVAIL_ANG_4",
   v_prevail_mag1 |-> "V_PREVAIL_MAG_1", v_prevail_mag2 |-> "V_PREVAIL_MAG_2",
   v_prevail_mag3 |-> "V_PREVAIL_MAG_3", v_prevail_mag4 |-> "V_PREVAIL_MAG_4",
   I_prevail_ang1 |-> "I_PREVAIL_ANG_1", I_prevail_ang2 |-> "I_PREVAIL_ANG_2",
   I_prevail_ang3 |-> "I_PREVAIL_ANG_3", I_prevail_ang4 |-> "I_PREVAIL_ANG_4",
   I_prevail_mag1 |-> "I_PREVAIL_MAG_1", I_prevail_mag2 |-> "I_PREVAIL_MAG_2",
   I_prevail_mag3 |-> "I_PREVAIL_MAG_3", I_prevail_mag4 |-> "I_PREVAIL_MAG_4"]

\* The record of lines 128-147, after the checks of HARM_NUMBER and ROW_ID;
\* floats[k] is safe_float of the column of key k.
ReadRecord(harmonic, row_id, floats) ==
  IF ~harmonic.ok THEN Skip
  ELSE IF ~row_id.ok THEN Skip
  ELSE [ok |-> TRUE,
        rec |-> [k \in {"row_id", "harmonic_number"} \cup DOMAIN ReadColumns |->
                   IF k = "row_id" THEN row_id.val
                   ELSE IF k = "harmonic_number" THEN harmonic.val
                   ELSE floats[k]]]

\* Lines 82-147 for the stripped line l and its fields.
ReadFields(headers, l, fields) ==
  IF l = <<>> THEN Skip
  ELSE IF Len(fields) # Len(headers) THEN Skip
  ELSE ReadRecord(
         HarmonicOf(Strip(Lookup(headers, fields, <<"HARM_NUMBER">>))),
         RowIdOf(Strip(Lookup(headers, fields, <<"ROW_ID">>))),
         [k \in DOMAIN ReadColumns |->
            safe_float(Lookup(headers, fields, <<ReadColumns[k]>>))])

\* fields of the stripped, unquoted line (lines 85-88)
ReadLine(headers, l) == ReadFields(headers, l, Split(Unquote(l), TAB))

\* One pass of the loop body of read_csv over a data line (lines 82-150):
\* [ok |-> a record is appended, rec |-> the record].
ReadRow(headers, line) == ReadLine(headers, Strip(line))

\* The test that ends the loop of read_csv (line 80).
CapReachedMutant(rows_processed, max_rows) == rows_processed > max_rows
CapReached(rows_processed, max_rows) == rows_processed >= max_rows

\* Lines 150-151 for the line with idx + 1 = n, or one of the continues: acc
\* is [exc, records, srcs, iters, rows_processed]; srcs is the idx + 1 of each
\* record, iters counts the passes that went beyond the test of line 80.
ReadStep(acc, n, r) ==
  IF r.ok
  THEN [acc EXCEPT !.records = Append(@, r.rec), !.srcs = Append(@, n),
                   !.rows_processed = @ + 1, !.iters = @ + 1]
  ELSE [acc EXCEPT !.iters = @ + 1]

\* The loop of read_csv (lines 78-151) from line i of the file on (line 1 is
\* the header, so lines[i] is the code's lines[1:][idx] with idx + 1 = i - 1).
RECURSIVE ReadLoop(_, _, _, _, _)
ReadLoop(headers, lines, i, max_rows, acc) ==
  IF i > Len(lines) \/ CapReached(acc.rows_processed, max_rows) THEN acc
  ELSE ReadLoop(headers, lines, i + 1, max_rows,
                ReadStep(acc, i - 1, ReadRow(headers, lines[i])))

\* An outcome of read_csv with no records: exc is "none" before the loop and
\* the exception otherwise.
NoRecords(exc) ==
  [exc |-> exc, records |-> <<>>, srcs |-> <<>>, iters |-> 0,
   rows_processed |-> 0]

\* Lines 40-154 for the header's fields
ReadBodyMutant(file, headers, max_rows) ==
  IF \E c \in required_headers : ~HasKey(headers, <<c>>)
  THEN NoRecords("none")
  ELSE ReadLoop(headers, file.lines, 2, max_rows, NoRecords("none"))
ReadBody(file, headers, max_rows) ==
  IF \E c \in required_headers : ~HasKey(headers, <<c>>)
  THEN NoRecords("AssertionError")
  ELSE ReadLoop(headers, file.lines, 2, max_rows, NoRecords("none"))

\* read_csv(csv_path, max_rows): [exc, records, srcs, iters, rows_processed].
read_csv(file, max_rows) ==
  IF ~file.readable THEN NoRecords("FileNotFoundError")
  ELSE IF file.lines = <<>> THEN NoRecords("AssertionError")
  ELSE ReadBody(file, Split(Unquote(Strip(file.lines[1])), TAB), max_rows)

\* The HarmonicRecord(...) of import_records (lines 167-185): the record
\* without its row_id.
Instance(rec) == [f \in (DOMAIN rec) \ {"row_id"} |-> rec[f]]

\* The loop of import_records (lines 165-187) from record i on.
RECURSIVE ImportLoop(_, _, _, _)
ImportLoop(records, i, table, inserted_count) ==
  IF i > Len(records) THEN [table |-> table, inserted_count |-> inserted_count]
  ELSE ImportLoop(records, i + 1, Append(table, Instance(records[i])),
                  inserted_count + 1)

\* import_records(records): [exc, table (HarmonicRecord afterwards),
\* inserted_count].  The import of line 162 fails when models.py defines no
\* HarmonicRecord.
import_records(records) ==
  IF "HarmonicRecord" \notin LudwigModels
  THEN [exc |-> "ImportError", table |-> harmonicrecord, inserted_count |-> 0]
  ELSE LET r == ImportLoop(records, 1, harmonicrecord, 0)
       IN  [exc |-> "none", table |-> r.table,
            inserted_count |-> r.inserted_count]

\* An outcome of main() that stopped on an exception before import_records
MainFailed(exc) ==
  [exc |-> exc, records |-> <<>>, table |-> harmonicrecord,
   inserted_count |-> 0]

\* Lines 208-209 of main(): i is the outcome of import_records(records)
MainImport(r, i) ==
  [exc |-> i.exc, records |-> r.records, table |-> i.table,
   inserted_count |-> i.inserted_count]

\* Lines 207-208 of main(): r is the outcome of read_csv
MainRead(r) ==
  IF r.exc # "none" THEN MainFailed(r.exc)
  ELSE MainImport(r, import_records(r.records))

\* import_harmonics.main(): [exc, records, table, inserted_count].
import_harmonics_main(file) ==
  IF ~file.readable THEN MainFailed("AssertionError")
  ELSE MainRead(read_csv(file, MAX_ROWS))

\* -------------------------------------------------- generate_plots.py

\* a < b for floats that are not NaN
Less(a, b) ==
  CASE a.k = "-inf" -> b.k # "-inf"
    [] a.k = "inf" -> FALSE
    [] OTHER -> b.k = "inf" \/
                (b.k = "fin" /\ a.m * Pow10(b.s) < b.m * Pow10(a.s))

\* a > b: False when either is NaN
Greater(a, b) == a.k # "nan" /\ b.k # "nan" /\ Less(b, a)

\* a * b
Times(a, b) ==
  IF a.k = "nan" \/ b.k = "nan" THEN NaN
  ELSE IF a.k = "fin" /\ b.k = "fin" THEN Fin(a.m * b.m, a.s + b.s)
  ELSE LET sign(x) == CASE x.k = "inf" -> 1 [] x.k = "-inf" -> -1
                        [] x.m > 0 -> 1 [] x.m < 0 -> -1 [] OTHER -> 0
       IN  CASE sign(a) * sign(b) = 0 -> NaN
             [] sign(a) * sign(b) = 1 -> Inf
             [] OTHER -> NegInf

\* a / 100
Percent(a) == IF a.k = "fin" THEN Fin(a.m, a.s + 2) ELSE a

\* Series.max(): the largest value that is not NaN; NaN when there is none.
RECURSIVE SeriesMax(_, _, _)
SeriesMax(xs, i, best) ==
  IF i > Len(xs) THEN best
  ELSE IF xs[i].k = "nan" THEN SeriesMax(xs, i + 1, best)
  ELSE IF best.k = "nan" \/ Less(best, xs[i]) THEN SeriesMax(xs, i + 1, xs[i])
  ELSE SeriesMax(xs, i + 1, best)

\* The assertion of line 82: not df.empty and len(df) >= 2.
SufficientMutant(df) == df # <<>>
Sufficient(df) == df # <<>> /\ Len(df) >= 2

\* HarmData.objects.filter(harm_number=harm_number)
FilterHarm(harm_number) ==
  SelectSeq(harmdata, LAMBDA row : row.harm_number = harm_number)

\* fetch_data(harm_number, night_mode, threshold_percentage): [exc, df].
fetch_data(harm_number, night_mode, threshold_percentage) ==
  LET qs == FilterHarm(harm_number)
      max_val == SeriesMax([i \in 1..Len(qs) |-> qs[i].p_harm_total], 1, NaN)
      threshold == Times(Percent(threshold_percentage), max_val)
      df == IF night_mode /\ threshold_percentage # None
            THEN SelectSeq(qs, LAMBDA row : Greater(row.p_harm_total, threshold))
            ELSE qs
  IN  IF qs = <<>> THEN [exc |-> "AssertionError", df |-> <<>>]
      ELSE IF ~Sufficient(df) THEN [exc |-> "AssertionError", df |-> <<>>]
      ELSE [exc |-> "none", df |-> df]

\* The mapping of phase names to column suffixes.
PHASE_COLUMNS ==
  [phase \in {"Phase A", "Phase B", "Phase C"} |->
     CASE phase = "Phase A" -> "_1" [] phase = "Phase B" -> "_2"
       [] phase = "Phase C" -> "_3"]

\* i_mag_col, v_mag_col, i_ang_col, v_ang_col for a suffix (lines 99-102)
PhaseFields(suffix) ==
  CASE suffix = "_1" -> {"i_prevail_mag_1", "v_prevail_mag_1",
                         "i_prevail_ang_1", "v_prevail_ang_1"}
    [] suffix = "_2" -> {"i_prevail_mag_2", "v_prevail_mag_2",
                         "i_prevail_ang_2", "v_prevail_ang_2"}
    [] suffix = "_3" -> {"i_prevail_mag_3", "v_prevail_mag_3",
                         "i_prevail_ang_3", "v_prevail_ang_3"}

\* df.replace([np.inf, -np.inf], np.nan) for one row (line 109)
ReplaceInf(row) ==
  [c \in DOMAIN row |->
     IF c = "harm_number" THEN row[c]
     ELSE IF row[c].k \in {"inf", "-inf"} THEN NaN ELSE row[c]]

\* df.dropna(subset=cols) (line 110)
DropNa(df, cols) ==
  SelectSeq(df, LAMBDA row : \A c \in cols : row[c].k # "nan")

\* The cleaned data of lines 109-110
Clean(df, cols) == DropNa([i \in 1..Len(df) |-> ReplaceInf(df[i])], cols)

\* The assertion of line 111 on the cleaned data, then the plotting of lines
\* 114-138: library is what the calls into scipy and matplotlib do with the
\* cleaned data ("ok", or "raises": a singular covariance in gaussian_kde, a
\* missing font file), which this repository does not decide.  kde says
\* whether gaussian_kde was called, rows on how many rows.
PlotCleaned(cleaned, library) ==
  IF cleaned = <<>>
  THEN [exc |-> "AssertionError", kde |-> FALSE, rows |-> 0]
  ELSE [exc |-> IF library = "ok" THEN "none" ELSE "Exception",
        kde |-> TRUE, rows |-> Len(cleaned)]

\* generate_and_save_plots(df, phase, harm_number): [exc, kde, rows].
generate_and_save_plots(df, phase, harm_number, library) ==
  IF phase \notin DOMAIN PHASE_COLUMNS
  THEN [exc |-> "AssertionError", kde |-> FALSE, rows |-> 0]
  ELSE PlotCleaned(Clean(df, PhaseFields(PHASE_COLUMNS[phase])), library)

\* ------------------------------------------------------------ views.py

\* request.POST.get(key, default)
PostGet(POST, key, default) ==
  IF key \in DOMAIN POST THEN POST[key] ELSE default

\* int(request.POST.get("harm_number", 3)) (line 16): [ok, val]
ViewHarmNumber(POST) ==
  IF "harm_number" \in DOMAIN POST THEN PyInt(POST["harm_number"])
  ELSE [ok |-> TRUE, val |-> 3]

\* float(threshold) if threshold else None (lines 19-20): [ok, val]
ViewThresholdMutant(threshold) ==
  IF threshold = <<>> \/ ~PyFloat(threshold).ok
  THEN [ok |-> TRUE, val |-> None]
  ELSE PyFloat(threshold)
ViewThreshold(threshold) ==
  IF threshold = <<>> THEN [ok |-> TRUE, val |-> None]
  ELSE PyFloat(threshold)

\* A str in the context of the response, as opposed to None
Str(text) == [k |-> "str", text |-> text]

\* The context the handler renders: plot_url and error, and what was carried
\* out on the way (fetch_data returned, generate_and_save_plots returned,
\* gaussian_kde was called, on how many rows).
Rendered(plot_url, error, fetched, plotted, kde, rows) ==
  [plot_url |-> plot_url, error |-> error, fetched |-> fetched,
   plotted |-> plotted, kde |-> kde, rows |-> rows]

\* The except clause of lines 30-31: error = str(e)
ViewError(exc, fetched, kde, rows) ==
  Rendered(None, Str(exc), fetched, FALSE, kde, rows)

\* Lines 24-31 for the outcome g of generate_and_save_plots
ViewPlotted(g, phase, harm_number) ==
  IF g.exc # "none" THEN ViewError(g.exc, TRUE, g.kde, g.rows)
  ELSE Rendered(Str(<<"/static/plots/polar_scatter", phase, harm_number>>),
                None, TRUE, TRUE, g.kde, g.rows)

\* Lines 23-31 for the outcome d of fetch_data
ViewFetched(d, phase, harm_number, library) ==
  IF d.exc # "none" THEN ViewError(d.exc, FALSE, FALSE, 0)
  ELSE ViewPlotted(generate_and_save_plots(d.df, phase, harm_number, library),
                   phase, harm_number)

\* Lines 16-31 for the parsed parameters.  Without the HarmData table the
\* query of fetch_data raises django.db.utils.ProgrammingError.
ViewParsed(harm_number, phase, night_mode, threshold, library) ==
  IF ~harm_number.ok \/ ~threshold.ok
  THEN ViewError("ValueError", FALSE, FALSE, 0)
  ELSE IF HarmDataTable \notin list_db_tables
  THEN ViewError("ProgrammingError", FALSE, FALSE, 0)
  ELSE ViewFetched(fetch_data(harm_number.val, night_mode, threshold.val),
                   phase, harm_number.val, library)

\* generate_plot(request): the context of the rendered response.
generate_plot(request, library) ==
  IF request.method # "POST"
  THEN Rendered(None, None, FALSE, FALSE, FALSE, 0)
  ELSE ViewParsed(ViewHarmNumber(request.POST),
                  PostGet(request.POST, "phase", "Phase A"),
                  PostGet(request.POST, "night_mode", "off") = "on",
                  ViewThreshold(PostGet(request.POST, "threshold", <<>>)),
                  library)

\* ---------------------------------------------------- plot_harmonics.py

RECURSIVE GCD(_, _)
GCD(a, b) == IF b = 0 THEN a ELSE GCD(b, a % b)

\* The angle num/den * pi radians, in lowest form (den > 0).
Rad(num, den) ==
  IF num = 0 THEN [k |-> "rad", num |-> 0, den |-> 1]
  ELSE [k |-> "rad",
        num |-> num \div GCD(IF num < 0 THEN -num ELSE num, den),
        den |-> den \div GCD(IF num < 0 THEN -num ELSE num, den)]

\* np.deg2rad(x): x * pi / 180; NaN and the infinities stay what they are.
deg2rad(x) == IF x.k = "fin" THEN Rad(x.m, 180 * Pow10(x.s)) ELSE x

\* getattr(record, name, None)
getattr(record, name) == IF name \in DOMAIN record THEN record[name] ELSE None

\* The test of line 94: the record has a measured point for the channel.
MeasuredMutant(angle_val, mag_val) == angle_val # None
Measured(angle_val, mag_val) == angle_val # None /\ mag_val # None

\* Lines 94-99 for channel i of a record: data is [series_data,
\* mag_series_data].
AddPoint(data, i, angle_val, mag_val) ==
  [series_data |->
     IF Measured(angle_val, mag_val)
     THEN [data.series_data EXCEPT
             ![i].theta = Append(@, deg2rad(angle_val)),
             ![i].radius = Append(@, mag_val)]
     ELSE data.series_data,
   mag_series_data |->
     IF mag_val # None
     THEN [data.mag_series_data EXCEPT ![i] = Append(@, mag_val)]
     ELSE data.mag_series_data]

\* The inner loop of lines 89-99 from channel i on.
RECURSIVE ChannelLoop(_, _, _, _)
ChannelLoop(record, prefix, i, data) ==
  IF i > 4 THEN data
  ELSE ChannelLoop(record, prefix, i + 1,
                   AddPoint(data, i,
                            getattr(record, prefix \o "ang" \o ToString(i)),
                            getattr(record, prefix \o "mag" \o ToString(i))))

\* The loop of lines 88-99 from record n on.
RECURSIVE RecordLoop(_, _, _, _)
RecordLoop(records, prefix, n, data) ==
  IF n > Len(records) THEN data
  ELSE RecordLoop(records, prefix, n + 1,
                  ChannelLoop(records[n], prefix, 1, data))

\* Fixed angles for magnitude-only series.
fixed_angles == <<Rad(0, 1), Rad(1, 2), Rad(1, 1), Rad(3, 2)>>

\* The ax.scatter calls of lines 115-127 from channel i on: one for each
\* channel with measured points.
RECURSIVE MeasuredScatters(_, _, _)
MeasuredScatters(series_data, i, calls) ==
  IF i > 4 THEN calls
  ELSE MeasuredScatters(series_data, i + 1,
         IF series_data[i].theta # <<>> /\ series_data[i].radius # <<>>
         THEN Append(calls, [theta |-> series_data[i].theta,
                             r |-> series_data[i].radius,
                             label |-> <<"legend_ang", i>>])
         ELSE calls)

\* The ax.scatter calls of lines 131-143 from channel i on: one for each
\* channel with magnitudes, at theta_fixed = np.full(len(mags), fixed_angles[i]).
RECURSIVE MagScatters(_, _, _)
MagScatters(mag_series_data, i, calls) ==
  IF i > 4 THEN calls
  ELSE MagScatters(mag_series_data, i + 1,
         IF mag_series_data[i] # <<>>
         THEN Append(calls,
                     [theta |-> [j \in 1..Len(mag_series_data[i]) |->
                                   fixed_angles[i]],
                      r |-> mag_series_data[i],
                      label |-> <<"legend_mag", i>>])
         ELSE calls)

\* Lines 101-164 for the data of the loop: the scatter calls in order.
Scatters(data) ==
  MagScatters(data.mag_series_data, 1,
              MeasuredScatters(data.series_data, 1, <<>>))

\* create_polar_plot_for_group(harmonic, records, prefix, ...): the calls of
\* ax.scatter that make up the plot it saves.
create_polar_plot_for_group(harmonic, records, prefix) ==
  Scatters(RecordLoop(records, prefix, 1,
             [series_data |-> [i \in 1..4 |-> [theta |-> <<>>, radius |-> <<>>]],
              mag_series_data |-> [i \in 1..4 |-> <<>>]]))

\* Maximum number of records to process per harmonic
MAX_RECORDS_PER_HARMONIC == 100000

\* values_list("harmonic_number", flat=True).distinct()
distinct_numbers == {harmonicrecord[n].harmonic_number : n \in DOMAIN harmonicrecord}

\* records[:limit] of line 56
Slice(records, limit) ==
  IF Len(records) <= limit THEN records ELSE SubSeq(records, 1, limit)

\* get_records_grouped_by_harmonic(): [exc, grouped_records].  The import of
\* line 50 fails when models.py defines no HarmonicRecord.
get_records_grouped_by_harmonic ==
  IF "HarmonicRecord" \notin LudwigModels
  THEN [exc |-> "ImportError", grouped_records |-> <<>>]
  ELSE [exc |-> "none",
        grouped_records |->
          [harmonic \in distinct_numbers |->
             Slice(SelectSeq(harmonicrecord,
                             LAMBDA row : row.harmonic_number = harmonic),
                   MAX_RECORDS_PER_HARMONIC)]]

\* ------------------------------------- management/commands/reset_db.py

\* confirm.lower() != 'yes' does not hold (line 34)
ConfirmedMutant(confirm) == confirm # <<>> /\ Lower(confirm[1]) = "y"
Confirmed(confirm) == LowerSeq(confirm) = <<"y", "e", "s">>

\* management.call_command('flush', interactive=False): every table is
\* emptied.
flush == [harmdata |-> <<>>, harmonicrecord |-> <<>>]

\* Lines 38-39 after the events so far: the flush, then the success message.
Wipe(events) ==
  [exc |-> "none",
   events |-> events \o <<"flush",
                          "Successfully wiped everything off the database.">>,
   db |-> flush]

\* Command.handle: [exc, events, db].  events are the prompt ("input"), the
\* flush, the messages written and sys.exit, in the order they happen; confirm
\* is the text typed at the prompt, if there is one.
handle(noinput, confirm) ==
  IF noinput THEN Wipe(<<>>)
  ELSE IF ~Confirmed(confirm)
  THEN [exc |-> "SystemExit",
        events |-> <<"input", "Aborting wipe operation.", "sys.exit">>,
        db |-> [harmdata |-> harmdata, harmonicrecord |-> harmonicrecord]]
  ELSE Wipe(<<"input">>)

\* ----------------------------------------------------------- inputs

COLS ==
  <<"ROW_ID", "HARM_NUMBER", "P_HARM_TOTAL",
    "I_PREVAIL_MAG_1", "I_PREVAIL_ANG_1", "V_PREVAIL_MAG_1", "V_PREVAIL_ANG_1",
    "I_PREVAIL_MAG_2", "I_PREVAIL_ANG_2", "V_PREVAIL_MAG_2", "V_PREVAIL_ANG_2",
    "I_PREVAIL_MAG_3", "I_PREVAIL_ANG_3", "V_PREVAIL_MAG_3", "V_PREVAIL_ANG_3",
    "I_PREVAIL_MAG_4", "I_PREVAIL_ANG_4", "V_PREVAIL_MAG_4", "V_PREVAIL_ANG_4">>

RECURSIVE Join(_, _)
Join(fields, sep) ==
  IF Len(fields) = 0 THEN <<>>
  ELSE IF Len(fields) = 1 THEN fields[1]
  ELSE fields[1] \o <<sep>> \o Join(Tail(fields), sep)

\* A header line naming cols.
HeaderLine(cols) == Join([i \in 1..Len(cols) |-> <<cols[i]>>], TAB)
\* cols with column c renamed to "OTHER".
Without(cols, c) == [i \in 1..Len(cols) |-> IF cols[i] = c THEN "OTHER" ELSE cols[i]]

\* A data line: every field "1", except ROW_ID, HARM_NUMBER, P_HARM_TOTAL,
\* I_PREVAIL_MAG_1 and V_PREVAIL_ANG_4 as given.
DataLine(row_id, harm, p, imag1, vang4) ==
  Join([i \in 1..Len(COLS) |->
          CASE COLS[i] = "ROW_ID" -> row_id
            [] COLS[i] = "HARM_NUMBER" -> harm
            [] COLS[i] = "P_HARM_TOTAL" -> p
            [] COLS[i] = "I_PREVAIL_MAG_1" -> imag1
            [] COLS[i] = "V_PREVAIL_ANG_4" -> vang4
            [] OTHER -> <<"1">>], TAB)

\* The data lines the files are made of.  With each line, what the claims
\* say of it, settled by hand from the text of the line (and by running the
\* scripts on it), independently of the operators above:
\*   blank      the line is empty or whitespace
\*   fields     it has as many tab-separated fields as the header, counted
\*              as the scripts count them, after the surrounding whitespace
\*              (and, in read_csv, the surrounding quotes) is removed
\*   is_int     its HARM_NUMBER text is accepted by int()
\*   whole      its HARM_NUMBER is non-blank, numeric and integer-valued
\*   harm       the integer HARM_NUMBER denotes (when is_int or whole)
\*   floats     the 13 numeric columns load_csv.py requires convert to float
\*   row_id     its ROW_ID is non-blank and accepted by int()
Vocabulary ==
  << [raw |-> DataLine(<<"1">>, <<"3">>, <<"5">>, <<"1">>, <<"1">>),
      blank |-> FALSE, fields |-> TRUE, is_int |-> TRUE, whole |-> TRUE,
      harm |-> 3, floats |-> TRUE, row_id |-> TRUE],
     [raw |-> DataLine(<<"2">>, <<"5">>, <<"2">>, <<"1">>, <<"1">>),
      blank |-> FALSE, fields |-> TRUE, is_int |-> TRUE, whole |-> TRUE,
      harm |-> 5, floats |-> TRUE, row_id |-> TRUE],
     [raw |-> DataLine(<<"3">>, <<" ", "3">>, <<"2">>, <<"n", "a", "n">>, <<"1">>),
      blank |-> FALSE, fields |-> TRUE, is_int |-> TRUE, whole |-> TRUE,
      harm |-> 3, floats |-> TRUE, row_id |-> TRUE],
     [raw |-> DataLine(<<"1">>, <<"3", ".", "0">>, <<"5">>, <<"1">>, <<"1">>),
      blank |-> FALSE, fields |-> TRUE, is_int |-> FALSE, whole |-> TRUE,
      harm |-> 3, floats |-> TRUE, row_id |-> TRUE],
     [raw |-> DataLine(<<"1">>, <<"3", ".", "5">>, <<"5">>, <<"1">>, <<"1">>),
      blank |-> FALSE, fields |-> TRUE, is_int |-> FALSE, whole |-> FALSE,
      harm |-> 0, floats |-> TRUE, row_id |-> TRUE],
     [raw |-> DataLine(<<"1">>, <<"a", "b">>, <<"5">>, <<"1">>, <<"1">>),
      blank |-> FALSE, fields |-> TRUE, is_int |-> FALSE, whole |-> FALSE,
      harm |-> 0, floats |-> TRUE, row_id |-> TRUE],
     [raw |-> DataLine(<<"1">>, <<>>, <<"5">>, <<"1">>, <<"1">>),
      blank |-> FALSE, fields |-> TRUE, is_int |-> FALSE, whole |-> FALSE,
      harm |-> 0, floats |-> TRUE, row_id |-> TRUE],
     [raw |-> <<" ">>,
      blank |-> TRUE, fields |-> FALSE, is_int |-> FALSE, whole |-> FALSE,
      harm |-> 0, floats |-> FALSE, row_id |-> FALSE],
     [raw |-> <<"1", TAB, "3", TAB, "5">>,
      blank |-> FALSE, fields |-> FALSE, is_int |-> TRUE, whole |-> TRUE,
      harm |-> 3, floats |-> FALSE, row_id |-> TRUE],
     [raw |-> DataLine(<<"1">>, <<"3">>, <<"x">>, <<>>, <<"1">>),
      blank |-> FALSE, fields |-> TRUE, is_int |-> TRUE, whole |-> TRUE,
      harm |-> 3, floats |-> FALSE, row_id |-> TRUE],
     [raw |-> DataLine(<<"x">>, <<"5">>, <<"5">>, <<"1">>, <<"1">>),
      blank |-> FALSE, fields |-> TRUE, is_int |-> TRUE, whole |-> TRUE,
      harm |-> 5, floats |-> TRUE, row_id |-> FALSE],
     [raw |-> <<QUOTE>> \o DataLine(<<"1">>, <<"3">>, <<"1">>, <<"1">>, <<"1">>)
                \o <<QUOTE>>,
      blank |-> FALSE, fields |-> TRUE, is_int |-> TRUE, whole |-> TRUE,
      harm |-> 3, floats |-> TRUE, row_id |-> TRUE],
     [raw |-> DataLine(<<"1">>, <<"3">>, <<"5">>, <<"1">>, <<>>),
      blank |-> FALSE, fields |-> FALSE, is_int |-> TRUE, whole |-> TRUE,
      harm |-> 3, floats |-> TRUE, row_id |-> TRUE] >>

Lines == {Vocabulary[i].raw : i \in 1..Len(Vocabulary)}
\* The first four lines of the vocabulary may occur in a file any number of
\* times; of the other lines a file holds at most one, in any position.
Core == {Vocabulary[i].raw : i \in {1, 2, 3, 4}}

\* The file bodies of exactly n lines, at most one of them outside Core.
RECURSIVE BodiesOf(_)
BodiesOf(n) ==
  IF n = 0 THEN {<<>>}
  ELSE {Append(b, l) : b \in BodiesOf(n - 1), l \in Core}
       \cup {Append(b, l) :
               b \in {c \in BodiesOf(n - 1) : \A i \in 1..Len(c) : c[i] \in Core},
               l \in Lines \ Core}
\* The file bodies of at most n lines.
Bodies(n) == UNION {BodiesOf(k) : k \in 0..n}

\* Header lines: all columns; the same in quotes; P_HARM_TOTAL missing;
\* ROW_ID missing; a blank line.
GoodHeader == HeaderLine(COLS)
OtherHeaders ==
  {<<QUOTE>> \o HeaderLine(COLS) \o <<QUOTE>>,
   HeaderLine(Without(COLS, "P_HARM_TOTAL")),
   HeaderLine(Without(COLS, "ROW_ID")),
   <<" ">>}

\* The files: a missing one, an empty one, the good header over every body,
\* every other header over the bodies of at most one line.
Files ==
  {[readable |-> FALSE, lines |-> <<>>], [readable |-> TRUE, lines |-> <<>>]}
  \cup {[readable |-> TRUE, lines |-> <<GoodHeader>> \o b] : b \in Bodies(MaxLines)}
  \cup {[readable |-> TRUE, lines |-> <<h>> \o b] : h \in OtherHeaders, b \in Bodies(1)}

\* A row an earlier run of load_csv_to_db, on another file, has stored: the
\* row of a line with HARM_NUMBER 7 and P_HARM_TOTAL 9.
SeedRow ==
  LoadRow(Split(GoodHeader, TAB),
          DataLine(<<"1">>, <<"7">>, <<"9">>, <<"1">>, <<"1">>)).rec

\* The parameters of a POST, each with what the claims say of it, settled by
\* hand: ok, whether the handler can parse it, and for harm_number the value.
NoParam == [k \in {} |-> <<>>]
HarmNumberParams ==
  {[post |-> NoParam, ok |-> TRUE, val |-> 3],
   [post |-> "harm_number" :> <<"3">>, ok |-> TRUE, val |-> 3],
   [post |-> "harm_number" :> <<"a", "b">>, ok |-> FALSE, val |-> 0]}
PhaseParams ==
  {[post |-> NoParam, ok |-> TRUE],
   [post |-> "phase" :> "Phase D", ok |-> FALSE]}
NightModeParams == {NoParam, "night_mode" :> "on"}
ThresholdParams ==
  {[post |-> "threshold" :> <<>>, ok |-> TRUE],
   [post |-> "threshold" :> <<"5", "0">>, ok |-> TRUE],
   [post |-> "threshold" :> <<"x">>, ok |-> FALSE]}

\* A POST of the parameters h, p, n, t.
PostRequest(h, p, n, t) ==
  [request |-> [method |-> "POST", POST |-> h.post @@ p.post @@ n @@ t.post],
   parses |-> h.ok /\ t.ok, harm_number |-> h.val, phase |-> p.ok]

\* The requests: a GET; the POSTs of every night_mode and threshold with the
\* other parameters left out; the POSTs of every harm_number and phase with
\* night mode off.
Requests ==
  {[request |-> [method |-> "GET", POST |-> NoParam], parses |-> TRUE,
    harm_number |-> 3, phase |-> TRUE]}
  \cup
  {PostRequest([post |-> NoParam, ok |-> TRUE, val |-> 3],
               [post |-> NoParam, ok |-> TRUE], n, t) :
     n \in NightModeParams, t \in ThresholdParams}
  \cup
  {PostRequest(h, p, NoParam, [post |-> "threshold" :> <<>>, ok |-> TRUE]) :
     h \in HarmNumberParams, p \in PhaseParams}

\* The texts typed at the prompt of reset_db, each with whether it equals
\* 'yes' ignoring case (settled by hand).
Confirmations ==
  {[text |-> <<"y", "e", "s">>, yes |-> TRUE],
   [text |-> <<"Y", "E", "S">>, yes |-> TRUE],
   [text |-> <<"Y", "e", "s">>, yes |-> TRUE],
   [text |-> <<"y">>, yes |-> FALSE],
   [text |-> <<"n", "o">>, yes |-> FALSE],
   [text |-> <<>>, yes |-> FALSE],
   [text |-> <<" ", "y", "e", "s">>, yes |-> FALSE],
   [text |-> <<"y", "e", "s", "s">>, yes |-> FALSE]}

\* A HarmonicRecord object as import_records builds them: channel n of the
\* v_prevail_ fields holds angle 10n and magnitude n, of the I_prevail_
\* fields angle 10n + 5 and magnitude n + 4, except channel c, which holds
\* ang and mag for both.
PlotRecord(c, ang, mag) ==
  [name \in {p \o f \o ToString(n) :
               p \in {"v_prevail_", "I_prevail_"}, f \in {"ang", "mag"},
               n \in 1..4} \cup {"harmonic_number"} |->
     IF name = "harmonic_number" THEN 3
     ELSE LET n == CHOOSE n \in 1..4 :
                     \E p \in {"v_prevail_", "I_prevail_"}, f \in {"ang", "mag"} :
                       name = p \o f \o ToString(n)
              v == \E f \in {"ang", "mag"} : name = "v_prevail_" \o f \o ToString(n)
              a == \E q \in {"v_prevail_", "I_prevail_"} :
                     name = q \o "ang" \o ToString(n)
          IN  IF n = c THEN (IF a THEN ang ELSE mag)
              ELSE Fin((IF a THEN 10 * n ELSE n) +
                       (IF v THEN 0 ELSE IF a THEN 5 ELSE 4), 0)]

\* The records: in channel 1 or 2, an angle that is None or 45 with a
\* magnitude that is None or 7.
PlotRecords ==
  {PlotRecord(c, ang, mag) :
     c \in {1, 2}, ang \in {None, Fin(45, 0)}, mag \in {None, Fin(7, 0)}}

\* The lists of at most n records.
RECURSIVE RecordLists(_)
RecordLists(n) ==
  IF n = 0 THEN {<<>>}
  ELSE RecordLists(n - 1) \cup
       {Append(l, r) : l \in {k \in RecordLists(n - 1) : Len(k) = n - 1},
                       r \in PlotRecords}

\* ---------------------------------------------------------- actions

\* The database before the runs: without the HarmData table (the migrations
\* not applied) or with it, the table empty or holding an earlier row.
Init ==
  /\ csv \in Files
  /\ tables \in {{}, {HarmDataTable}}
  /\ harmdata \in (IF HarmDataTable \in tables THEN {<<>>, <<SeedRow>>} ELSE {<<>>})
  /\ harmonicrecord = <<>>
  /\ ret = Ret("none", "none", <<>>, 0)

\* load_csv_to_db(csv_path)
LoadCsvToDb ==
  \E r \in {load_csv_to_db(csv)} :
      /\ Len(r.harmdata) <= MaxDbRows
      /\ harmdata' = r.harmdata
      /\ ret' = [Ret("load_csv_to_db", r.exc, <<>>, r.created)
                   EXCEPT !.srcs = r.srcs]
      /\ UNCHANGED <<csv, tables, harmonicrecord>>

\* read_csv(csv_path, max_rows)
ReadCsv ==
  \E max_rows \in 0..MaxLines :
    \E r \in {read_csv(csv, max_rows)} :
        /\ ret' = [Ret("read_csv", r.exc, r.records, r.rows_processed)
                     EXCEPT !.srcs = r.srcs, !.iters = r.iters,
                            !.max_rows = max_rows]
        /\ UNCHANGED <<csv, tables, harmdata, harmonicrecord>>

\* import_records(records), on the records a read_csv has just returned
ImportRecords ==
  /\ ret.op = "read_csv" /\ ret.exc = "none"
  /\ \E r \in {import_records(ret.val)} :
       /\ harmonicrecord' = r.table
       /\ ret' = Ret("import_records", r.exc, ret.val, r.inserted_count)
  /\ UNCHANGED <<csv, tables, harmdata>>

\* import_harmonics.main()
ImportHarmonicsMain ==
  \E r \in {import_harmonics_main(csv)} :
      /\ harmonicrecord' = r.table
      /\ ret' = [Ret("import_harmonics.main", r.exc, r.records, r.inserted_count)
                   EXCEPT !.max_rows = MAX_ROWS]
      /\ UNCHANGED <<csv, tables, harmdata>>

\* fetch_data(harm_number, night_mode, threshold_percentage).  The query runs
\* against the HarmData table; what the ORM does without the table is not
\* modelled.
FetchData ==
  /\ HarmDataTable \in tables
  /\ \E harm_number \in {3, 5}, night_mode \in BOOLEAN,
        threshold_percentage \in {None, Fin(0, 0), Fin(50, 0)} :
       \E r \in {fetch_data(harm_number, night_mode, threshold_percentage)} :
         ret' = [Ret("fetch_data", r.exc, r.df, Len(r.df))
                   EXCEPT !.harm_number = harm_number,
                          !.night_mode = night_mode,
                          !.threshold = threshold_percentage]
  /\ UNCHANGED <<csv, tables, harmdata, harmonicrecord>>

\* generate_plot(request).  The response is always rendered; its context and
\* the request are kept in ret.val.
GeneratePlot ==
  /\ \E q \in Requests, library \in {"ok", "raises"} :
       \E r \in {generate_plot(q.request, library)} :
         ret' = [Ret("generate_plot", "none",
                     [context |-> r, request |-> q, library |-> library],
                     r.rows)
                   EXCEPT !.harm_number = q.harm_number]
  /\ UNCHANGED <<csv, tables, harmdata, harmonicrecord>>

\* python manage.py reset_db [--noinput]
ResetDb ==
  /\ \E noinput \in BOOLEAN, c \in Confirmations :
       \E r \in {handle(noinput, c.text)} :
         /\ harmdata' = r.db.harmdata
         /\ harmonicrecord' = r.db.harmonicrecord
         /\ ret' = Ret("reset_db", r.exc,
                       [events |-> r.events, noinput |-> noinput, typed |-> c],
                       0)
  /\ UNCHANGED <<csv, tables>>

\* get_records_grouped_by_harmonic()
GetRecordsGroupedByHarmonic ==
  /\ \E r \in {get_records_grouped_by_harmonic} :
       ret' = Ret("get_records_grouped_by_harmonic", r.exc,
                  r.grouped_records, 0)
  /\ UNCHANGED <<csv, tables, harmdata, harmonicrecord>>

\* create_polar_plot_for_group(harmonic, records, prefix, ...); the records
\* and the prefix are kept with the scatter calls in ret.val.
CreatePolarPlotForGroup ==
  /\ \E records \in RecordLists(MaxRecords),
        prefix \in {"v_prevail_", "I_prevail_"} :
       ret' = Ret("create_polar_plot_for_group", "none",
                  [scatters |-> create_polar_plot_for_group(3, records, prefix),
                   records |-> records, prefix |-> prefix],
                  Len(records))
  /\ UNCHANGED <<csv, tables, harmdata, harmonicrecord>>

\* Every operation of the model.
Next ==
  \/ LoadCsvToDb
  \/ ReadCsv
  \/ ImportRecords
  \/ ImportHarmonicsMain
  \/ FetchData
  \/ GeneratePlot
  \/ ResetDb
  \/ GetRecordsGroupedByHarmonic
  \/ CreatePolarPlotForGroup

Spec == Init /\ [][Next]_vars

\* The claims are checked under the parts of Spec that their operations make
\* up; an operation outside the part changes nothing the claim reads.

\* A migrated, empty database.
InitMigrated == Init /\ tables = {HarmDataTable} /\ harmdata = <<>>

\* The load_csv.py route.
NextLoad == LoadCsvToDb

SpecLoad == Init /\ [][NextLoad]_vars

\* The import_harmonics.py route (it neither reads nor writes the HarmData
\* table).
NextImport ==
  \/ ReadCsv
  \/ ImportRecords
  \/ ImportHarmonicsMain

SpecImport == InitMigrated /\ [][NextImport]_vars

\* Both import routes.
NextRoutes ==
  \/ LoadCsvToDb
  \/ ReadCsv
  \/ ImportRecords
  \/ ImportHarmonicsMain

SpecRoutes == InitMigrated /\ [][NextRoutes]_vars

\* Loading and querying the HarmData table.
NextQuery ==
  \/ LoadCsvToDb
  \/ FetchData

SpecQuery == Init /\ [][NextQuery]_vars

\* The web page over the rows load_csv.py stores.
NextView ==
  \/ LoadCsvToDb
  \/ GeneratePlot

SpecView == Init /\ [][NextView]_vars

\* The wipe command over the rows load_csv.py stores.
NextWipe ==
  \/ LoadCsvToDb
  \/ ResetDb

SpecWipe == Init /\ [][NextWipe]_vars

\* The plot_harmonics.py script, over a migrated database and no file.
InitPlot == InitMigrated /\ csv = [readable |-> FALSE, lines |-> <<>>]

NextPlot ==
  \/ GetRecordsGroupedByHarmonic
  \/ CreatePolarPlotForGroup

SpecPlot == InitPlot /\ [][NextPlot]_vars

\* ------------------------------------------------------- the claims

\* What the vocabulary says of a line of the file.
Expect(line) ==
  Vocabulary[CHOOSE i \in 1..Len(Vocabulary) : Vocabulary[i].raw = line]
\* The data lines of the file, by line number (the header is line 1).
DataLineNumbers == [i \in 1..(Len(csv.lines) - 1) |-> i + 1]
\* A line load_csv_to_db is to insert: not blank, the header's field count, an
\* int HARM_NUMBER, 13 floats.
LoadValid(e) == ~e.blank /\ e.fields /\ e.is_int /\ e.floats
\* A line that passes the row checks of read_csv: not blank, the header's
\* field count, a whole HARM_NUMBER, an int ROW_ID.
ReadValid(e) == ~e.blank /\ e.fields /\ e.whole /\ e.row_id
ValidLoadLines ==
  SelectSeq(DataLineNumbers, LAMBDA n : LoadValid(Expect(csv.lines[n])))
ValidReadLines ==
  SelectSeq(DataLineNumbers, LAMBDA n : ReadValid(Expect(csv.lines[n])))
Min(a, b) == IF a <= b THEN a ELSE b

\* The rows the last run of load_csv_to_db added to the table.
Added == SubSeq(harmdata, Len(harmdata) - ret.count + 1, Len(harmdata))
Loaded == ret.op = "load_csv_to_db" /\ ret.exc = "none"
Read == ret.op = "read_csv" /\ ret.exc = "none"

\* C1: every row a run of load_csv_to_db adds comes from a data line whose
\* HARM_NUMBER text int() accepts, and its harm_number is that integer.
C1_OnlyIntHarmNumber ==
  Loaded =>
    /\ Len(ret.srcs) = ret.count
    /\ \A j \in 1..ret.count :
         /\ Expect(csv.lines[ret.srcs[j]]).is_int
         /\ Added[j].harm_number = Expect(csv.lines[ret.srcs[j]]).harm

\* A run has added a row from a file that also holds a full line whose
\* HARM_NUMBER int() rejects ("3.0", "3.5", "ab", "").
C1_Witness ==
  /\ Loaded /\ ret.count >= 1
  /\ \E n \in 2..Len(csv.lines) :
       LET e == Expect(csv.lines[n])
       IN  ~e.blank /\ e.fields /\ e.floats /\ ~e.is_int

\* C2: every record read_csv returns comes from a data line with the header's
\* field count and a non-blank, numeric, integer-valued HARM_NUMBER, and its
\* harmonic_number is that integer.
C2_OnlyWholeHarmNumber ==
  Read =>
    /\ Len(ret.srcs) = Len(ret.val)
    /\ \A j \in 1..Len(ret.val) :
         LET e == Expect(csv.lines[ret.srcs[j] + 1])
         IN  /\ ~e.blank /\ e.fields /\ e.whole
             /\ ret.val[j].harmonic_number = e.harm

\* read_csv has returned a record from a file that also holds a full line with
\* a missing, non-numeric or fractional HARM_NUMBER.
C2_Witness ==
  /\ Read /\ Len(ret.val) >= 1
  /\ \E n \in 2..Len(csv.lines) :
       LET e == Expect(csv.lines[n])
       IN  ~e.blank /\ e.fields /\ e.row_id /\ ~e.whole

\* C3: read_csv returns the first min(max_rows, V) of the V data lines that
\* pass all row checks, in file order.
C3_RowCap ==
  Read =>
    LET n == Min(ret.max_rows, Len(ValidReadLines))
    IN  /\ Len(ret.val) = n
        /\ [j \in 1..Len(ret.srcs) |-> ret.srcs[j] + 1] = SubSeq(ValidReadLines, 1, n)
        /\ \A j \in 1..Len(ret.val) :
             ret.val[j].harmonic_number = Expect(csv.lines[ret.srcs[j] + 1]).harm

\* read_csv has cut a file short: it holds more valid lines than the max_rows
\* >= 1 it was read with.
C3_Witness ==
  Read /\ ret.max_rows >= 1 /\ Len(ValidReadLines) > ret.max_rows

\* C4: the loop of read_csv runs its body for at most max_rows data lines.
C4_LoopBound ==
  ret.op = "read_csv" => ret.iters <= ret.max_rows

\* C5 as stated: no run of either route inserts more rows than the cap,
\* load_csv_to_db included.
C5_CapOnEveryRoute ==
  /\ Loaded => ret.count <= MAX_ROWS
  /\ ret.op = "import_harmonics.main" =>
       ret.count <= MAX_ROWS /\ Len(harmonicrecord) <= MAX_ROWS

\* C5, amended: only the read_csv route is capped.  read_csv returns at most
\* max_rows records, so import_harmonics.main (read_csv with MAX_ROWS, then
\* import_records) hands over and inserts at most MAX_ROWS rows; a run of
\* load_csv_to_db inserts one row for every valid line, however many.
C5_CapOnReadRoute ==
  /\ Read => Len(ret.val) <= ret.max_rows
  /\ ret.op = "import_harmonics.main" =>
       /\ Len(ret.val) <= MAX_ROWS
       /\ ret.count <= MAX_ROWS
       /\ Len(harmonicrecord) <= MAX_ROWS
  /\ Loaded => ret.count = Len(ValidLoadLines)

\* A run of load_csv_to_db has inserted more rows than MAX_ROWS.
C5_Witness ==
  Loaded /\ ret.count > MAX_ROWS

HeaderDefect ==
  \/ ~csv.readable
  \/ csv.lines = <<>>
  \/ csv.lines[1] \in {<<" ">>, HeaderLine(Without(COLS, "P_HARM_TOTAL"))}

\* C7: load_csv_to_db raises AssertionError, and inserts nothing, whenever the
\* header is empty or unreadable, a required column is missing or the
\* HarmData table does not exist; no failing run changes the table.
C7_FailsWithoutInserting ==
  /\ [](ret.op = "load_csv_to_db" /\ (HeaderDefect \/ HarmDataTable \notin tables)
          => ret.exc = "AssertionError" /\ ret.count = 0)
  /\ [][ret'.op = "load_csv_to_db" /\ ret'.exc # "none"
          => harmdata' = harmdata]_vars

\* A run has failed on a table that holds a row.
C7_Witness ==
  ret.op = "load_csv_to_db" /\ ret.exc = "AssertionError" /\ harmdata # <<>>

\* The rows in the table that no run on this file has added (SeedRow has a
\* HARM_NUMBER no line of the vocabulary has).
SeedRows == SelectSeq(harmdata, LAMBDA row : row = SeedRow)

\* C8: a successful run of load_csv_to_db on a file with k valid lines keeps
\* the rows the table held, unchanged, and appends k rows, k being the count
\* it reports; so the rows added by the runs so far number a multiple of k.
C8_AppendOnly ==
  /\ [][ret'.op = "load_csv_to_db" /\ ret'.exc = "none"
          => /\ Len(harmdata') = Len(harmdata) + Len(ValidLoadLines)
             /\ SubSeq(harmdata', 1, Len(harmdata)) = harmdata
             /\ ret'.count = Len(ValidLoadLines)]_vars
  /\ [](\E n \in 0..MaxDbRows :
          Len(harmdata) - Len(SeedRows) = n * Len(ValidLoadLines))

\* Two runs on a file with two valid lines have left four rows after the one
\* the table held before.
C8_Witness ==
  /\ Loaded /\ ret.count = 2
  /\ Len(SeedRows) = 1 /\ Len(harmdata) = 5

\* C9: import_records saves one HarmonicRecord row per record, the fields
\* other than row_id copied, in list order, and returns len(records).
C9_ImportInsertsAll ==
  ret.op = "import_records" =>
    /\ ret.exc = "none"
    /\ ret.count = Len(ret.val)
    /\ Len(harmonicrecord) >= Len(ret.val)
    /\ \A j \in 1..Len(ret.val) :
         LET row == harmonicrecord[Len(harmonicrecord) - Len(ret.val) + j]
         IN  /\ DOMAIN row = (DOMAIN ret.val[j]) \ {"row_id"}
             /\ \A f \in DOMAIN row : row[f] = ret.val[j][f]

\* The stored rows with the harmonic number of the last fetch_data.
Matching == SelectSeq(harmdata, LAMBDA row : row.harm_number = ret.harm_number)
Fetched == ret.op = "fetch_data" /\ ret.exc = "none"

Viewed == ret.op = "generate_plot"
IsNone(x) == x.k = "None"

\* C11: generate_plot always returns a rendered response.  On GET plot_url and
\* error are both None and nothing was fetched or plotted.  On POST exactly
\* one of plot_url and error is not None: error whenever a parameter does not
\* parse, fetch_data fails (fewer than 2 stored rows of the harmonic, for one)
\* or generate_and_save_plots fails (an unknown phase, a failure in the
\* plotting calls); plot_url only if both returned.
C11_RendersFormOrResult ==
  Viewed =>
    LET c == ret.val.context
        q == ret.val.request
    IN  /\ ret.exc = "none"
        /\ q.request.method = "GET" =>
             IsNone(c.plot_url) /\ IsNone(c.error) /\ ~c.fetched /\ ~c.plotted
        /\ q.request.method = "POST" =>
             /\ IsNone(c.plot_url) # IsNone(c.error)
             /\ ~q.parses => ~IsNone(c.error) /\ ~c.fetched
             /\ Len(Matching) < 2 => ~IsNone(c.error) /\ ~c.fetched
             /\ ~q.phase => ~IsNone(c.error)
             /\ (c.kde /\ ret.val.library = "raises") => ~IsNone(c.error)
             /\ ~IsNone(c.plot_url) => c.fetched /\ c.plotted
             /\ ~IsNone(c.error) <=> ~(c.fetched /\ c.plotted)

\* A POST in night mode has been answered with a plot.
C11_Witness ==
  /\ Viewed /\ ret.val.request.request.method = "POST"
  /\ ~IsNone(ret.val.context.plot_url) /\ ret.val.context.kde
  /\ "night_mode" \in DOMAIN ret.val.request.request.POST

\* The position of event e in the events of the last reset_db (0: not there).
EventAt(events, e) ==
  IF \E i \in 1..Len(events) : events[i] = e
  THEN CHOOSE i \in 1..Len(events) : events[i] = e
  ELSE 0
SuccessMessage == "Successfully wiped everything off the database."

\* C12: reset_db without --noinput prompts and flushes only if the text typed
\* equals 'yes' ignoring case, and otherwise aborts with the tables as they
\* were; with --noinput it does not prompt and always flushes; the success
\* message is written only after the flush.
C12_FlushOnlyWhenConfirmed ==
  [][ret'.op = "reset_db" =>
       LET v == ret'.val
           flushed == EventAt(v.events, "flush") > 0
       IN  /\ flushed <=> (v.noinput \/ v.typed.yes)
           /\ v.noinput <=> EventAt(v.events, "input") = 0
           /\ ~v.noinput => /\ EventAt(v.events, "input") = 1
                            /\ ~v.typed.yes => ret'.exc = "SystemExit"
           /\ flushed => harmdata' = <<>> /\ harmonicrecord' = <<>>
           /\ ~flushed => harmdata' = harmdata /\ harmonicrecord' = harmonicrecord
           /\ EventAt(v.events, SuccessMessage) > 0 =>
                /\ flushed
                /\ EventAt(v.events, "flush") < EventAt(v.events, SuccessMessage)
    ]_vars

\* reset_db has flushed the tables after 'Yes' was typed at the prompt.
C12_Witness ==
  /\ ret.op = "reset_db" /\ ~ret.val.noinput
  /\ ret.val.typed.text = <<"Y", "e", "s">>
  /\ EventAt(ret.val.events, "flush") > 0
  /\ harmdata = <<>>

Plotted == ret.op = "create_polar_plot_for_group"
\* The angle and the magnitude of channel i of a record, for the prefix of
\* the last call.
AngleOf(rec, i) == rec[ret.val.prefix \o "ang" \o ToString(i)]
MagnitudeOf(rec, i) == rec[ret.val.prefix \o "mag" \o ToString(i)]
\* The records of the last call with a magnitude in channel i, and those
\* with an angle as well.
WithMagnitude(i) ==
  SelectSeq(ret.val.records, LAMBDA rec : MagnitudeOf(rec, i) # None)
WithBoth(i) ==
  SelectSeq(ret.val.records,
            LAMBDA rec : MagnitudeOf(rec, i) # None /\ AngleOf(rec, i) # None)
\* The series plotted under a label by the last call.
Series(label) == SelectSeq(ret.val.scatters, LAMBDA c : c.label = label)

\* C13: for each channel i, create_polar_plot_for_group plots as the
\* magnitude-only series one point per record whose magnitude i is not None,
\* all at the angle (i-1)*pi/2, and as the measured series one (angle,
\* magnitude) point per record whose angle i and magnitude i are both not
\* None, the angle converted to radians; the measured series is never the
\* longer one, and the points are those of that channel's fields.
C13_SeriesPerChannel ==
  Plotted =>
    \A i \in 1..4 :
      /\ Len(Series(<<"legend_mag", i>>)) = IF WithMagnitude(i) = <<>> THEN 0 ELSE 1
      /\ \A n \in DOMAIN Series(<<"legend_mag", i>>) :
           LET c == Series(<<"legend_mag", i>>)[n]
           IN  /\ c.r = [j \in 1..Len(WithMagnitude(i)) |->
                           MagnitudeOf(WithMagnitude(i)[j], i)]
               /\ Len(c.theta) = Len(c.r)
               /\ \A j \in DOMAIN c.theta :
                    /\ c.theta[j].k = "rad"
                    /\ 2 * c.theta[j].num = (i - 1) * c.theta[j].den
      /\ Len(Series(<<"legend_ang", i>>)) = IF WithBoth(i) = <<>> THEN 0 ELSE 1
      /\ \A n \in DOMAIN Series(<<"legend_ang", i>>) :
           LET c == Series(<<"legend_ang", i>>)[n]
           IN  /\ c.r = [j \in 1..Len(WithBoth(i)) |->
                           MagnitudeOf(WithBoth(i)[j], i)]
               /\ Len(c.theta) = Len(c.r)
               /\ Len(c.r) <= Len(WithMagnitude(i))
               /\ \A j \in DOMAIN c.theta :
                    /\ c.theta[j].k = "rad"
                    /\ 180 * Pow10(AngleOf(WithBoth(i)[j], i).s) * c.theta[j].num
                         = AngleOf(WithBoth(i)[j], i).m * c.theta[j].den

\* A plot of two records whose channel 2 has one measured point and two
\* magnitude-only points.
C13_Witness ==
  /\ Plotted /\ Len(ret.val.records) = 2
  /\ Len(WithBoth(2)) = 1 /\ Len(WithMagnitude(2)) = 2
  /\ \E n \in DOMAIN ret.val.scatters :
       ret.val.scatters[n].label = <<"legend_mag", 2>> /\
       Len(ret.val.scatters[n].r) = 2

\* C14: get_records_grouped_by_harmonic returns a dictionary whose keys are
\* the distinct harmonic numbers of the HarmonicRecord table; the list of key
\* h holds records of harmonic_number h only, at most
\* MAX_RECORDS_PER_HARMONIC of them.
C14_GroupedByHarmonic ==
  ret.op = "get_records_grouped_by_harmonic" =>
    /\ ret.exc = "none"
    /\ DOMAIN ret.val =
         {harmonicrecord[n].harmonic_number : n \in DOMAIN harmonicrecord}
    /\ \A h \in DOMAIN ret.val :
         /\ Len(ret.val[h]) <= MAX_RECORDS_PER_HARMONIC
         /\ \A n \in DOMAIN ret.val[h] : ret.val[h][n].harmonic_number = h

\* The header lines that name all 18 columns read_csv requires (settled by
\* hand): every column, the same in quotes, every column but P_HARM_TOTAL.
ReadHeaders ==
  {GoodHeader, <<QUOTE>> \o HeaderLine(COLS) \o <<QUOTE>>,
   HeaderLine(Without(COLS, "P_HARM_TOTAL"))}

\* C15: read_csv raises AssertionError, returning nothing, exactly when the
\* file has no lines or its header lacks one of the 18 required columns (and
\* FileNotFoundError exactly when there is no file); once the header is
\* accepted it returns, whatever the data lines are: a defective line is only
\* skipped.
C15_OnlyFileLevelFailures ==
  ret.op = "read_csv" =>
    /\ ret.exc \in {"none", "AssertionError", "FileNotFoundError"}
    /\ ret.exc = "FileNotFoundError" <=> ~csv.readable
    /\ ret.exc = "AssertionError" <=>
         /\ csv.readable
         /\ csv.lines = <<>> \/ csv.lines[1] \notin ReadHeaders
    /\ ret.exc # "none" => ret.val = <<>>
    /\ ret.exc = "none" =>
         /\ Len(ret.val) <= Len(csv.lines) - 1
         /\ \A j \in DOMAIN ret.srcs :
              ReadValid(Expect(csv.lines[ret.srcs[j] + 1]))

\* read_csv has returned the one valid line of a file whose other data line
\* is defective.
C15_Witness ==
  /\ Read /\ csv.lines # <<>> /\ csv.lines[1] = GoodHeader
  /\ Len(csv.lines) = 3 /\ Len(ret.val) = 1 /\ ret.max_rows = 2
  /\ \E n \in {2, 3} :
       ~Expect(csv.lines[n]).blank /\ ~ReadValid(Expect(csv.lines[n]))

\* C16: whenever generate_and_save_plots, called by generate_plot on the data
\* fetch_data returned, reaches gaussian_kde, the cleaned data has at least 2
\* rows.
C16_KdeOnTwoRows ==
  (Viewed /\ ret.val.context.kde) => ret.val.context.rows >= 2
====
